---- MODULE Spec2Model ----
(***************************************************************************)
(* PDF417 healthcare barcode parser (src/src/lib/pdf417-parser.ts) with    *)
(* its string utilities (src/src/lib/utils.ts).                            *)
(*                                                                         *)
(* JavaScript strings are TLA+ strings; a JavaScript value that may be     *)
(* null or undefined is a tagged record (JsNull, JsUndefined, JsStr).      *)
(* Loops over a schema or an object are written with SelectSeq and         *)
(* function constructors rather than by recursion on the position.         *)
(* A JavaScript object (the data mapping) and the Map of schemas are       *)
(* sequences of [key, value] entries in insertion order.                   *)
(***************************************************************************)
EXTENDS Integers, Sequences, FiniteSets, TLC

VARIABLES
    schemas,        \* PDF417HealthcareParser.schemas : Map<string, FormSchema>
    barcodeData,    \* the argument the caller hands to parse
    sanitizedData,  \* parse's local: sanitizeInput(barcodeData)
    fields,         \* parse's local: sanitizedData.split('\t')
    result,         \* outcome of the last parse call
    lastQuery,      \* last registry introspection call and what it returned
    pc,             \* where the parse call stands
    \* BarcodeScanner.scanFromCamera (src/src/lib/barcode-scanner.ts)
    camPc,          \* where the scanFromCamera call stands
    promise,        \* the promise scanFromCamera returned
    stream,         \* the camera stream: "none", "live" or "stopped" tracks
    scanning,       \* the closure's scanning flag
    scanCount,      \* decode attempts started so far
    readyState,     \* video.readyState
    frameHandle,    \* handle of the latest requestAnimationFrame
    \* RealTimeBarcodeScanner (src/unnamed/part_001)
    isStreaming,    \* React state: camera running
    isScanning,     \* React state: a scan is shown as in progress
    isScanningRef,  \* isScanningRef.current, the re-entrancy guard
    scanIntervalRef,    \* scanIntervalRef.current holds a timer
    activeIntervals,    \* interval timers set and not cleared
    decodesInFlight     \* scanFrame calls awaiting their decode

parserVars == <<schemas, barcodeData, sanitizedData, fields, result, lastQuery, pc>>
cameraVars == <<camPc, promise, stream, scanning, scanCount, readyState, frameHandle>>
scannerVars == <<isStreaming, isScanning, isScanningRef, scanIntervalRef,
                 activeIntervals, decodesInFlight>>
vars == <<parserVars, cameraVars, scannerVars>>

-----------------------------------------------------------------------------
(* JavaScript values *)

JsNull == [type |-> "null"]
JsUndefined == [type |-> "undefined"]
JsStr(s) == [type |-> "string", value |-> s]

charAt(s, i) == SubSeq(s, i, i)

Digits == {"0", "1", "2", "3", "4", "5", "6", "7", "8", "9"}

\* Characters String.prototype.trim removes (those the inputs can contain).
WhiteSpace == {" ", "\t", "\n", "\r", "\f"}

RECURSIVE trimStart(_)
trimStart(s) ==
    IF s # "" /\ charAt(s, 1) \in WhiteSpace
    THEN trimStart(SubSeq(s, 2, Len(s)))
    ELSE s

RECURSIVE trimEnd(_)
trimEnd(s) ==
    IF s # "" /\ charAt(s, Len(s)) \in WhiteSpace
    THEN trimEnd(SubSeq(s, 1, Len(s) - 1))
    ELSE s

trim(s) == trimEnd(trimStart(s))

\* s.replace(/[\n\r]/g, ''), evaluated by halves to keep the recursion shallow.
RECURSIVE removeLineBreaks(_)
removeLineBreaks(s) ==
    IF Len(s) = 0 THEN ""
    ELSE IF Len(s) = 1 THEN (IF s \in {"\n", "\r"} THEN "" ELSE s)
    ELSE LET h == Len(s) \div 2
         IN  removeLineBreaks(SubSeq(s, 1, h)) \o removeLineBreaks(SubSeq(s, h + 1, Len(s)))

\* The positions 1..n as a sequence.
indices(n) == [i \in 1..n |-> i]

\* s.split(sep) for a one-character separator: the pieces between consecutive
\* separator positions; "" splits into <<"">>.
split(s, sep) ==
    LET at == SelectSeq(indices(Len(s)), LAMBDA i : charAt(s, i) = sep)
    IN  [k \in 1..(Len(at) + 1) |->
            SubSeq(s, IF k = 1 THEN 1 ELSE at[k - 1] + 1,
                      IF k > Len(at) THEN Len(s) ELSE at[k] - 1)]

startsWith(s, prefix) ==
    Len(s) >= Len(prefix) /\ SubSeq(s, 1, Len(prefix)) = prefix

includes(s, sub) ==
    \E i \in 1..(Len(s) - Len(sub) + 1) : SubSeq(s, i, i + Len(sub) - 1) = sub

allDigits(s) == \A i \in 1..Len(s) : charAt(s, i) \in Digits

\* Object property access on a sequence of [key, value] entries.
objectKeys(obj) == {obj[i].key : i \in 1..Len(obj)}
objectHas(obj, k) == k \in objectKeys(obj)
objectGet(obj, k) == obj[CHOOSE i \in 1..Len(obj) : obj[i].key = k].value
objectSet(obj, k, v) ==
    IF objectHas(obj, k)
    THEN [i \in 1..Len(obj) |-> IF obj[i].key = k THEN [key |-> k, value |-> v] ELSE obj[i]]
    ELSE Append(obj, [key |-> k, value |-> v])

\* Map.get: the schema stored under key, or undefined.
mapGet(map, k) ==
    IF objectHas(map, k) THEN objectGet(map, k) ELSE JsUndefined

-----------------------------------------------------------------------------
(* src/src/lib/utils.ts *)

\* input.trim() on null raises a TypeError.
sanitizeInputThrows(input) == input.type # "string"

sanitizeInput(input) == removeLineBreaks(trim(input))

\* Variant: months beyond 12 and days beyond 31 are rejected as in validateDate.
parseGermanDate_RangeChecked(dateStr) ==
    IF dateStr = "" \/ dateStr = "00000000" \/ Len(dateStr) # 8
           \/ SubSeq(dateStr, 5, 5) \notin {"0", "1"} \/ SubSeq(dateStr, 7, 7) \notin {"0", "1", "2", "3"}
    THEN JsNull
    ELSE JsStr(SubSeq(dateStr, 1, 4) \o "-" \o SubSeq(dateStr, 5, 6)
               \o "-" \o SubSeq(dateStr, 7, 8))

parseGermanDate(dateStr) ==
    IF dateStr = "" \/ dateStr = "00000000" \/ Len(dateStr) # 8
    THEN JsNull
    ELSE JsStr(SubSeq(dateStr, 1, 4) \o "-" \o SubSeq(dateStr, 5, 6)
               \o "-" \o SubSeq(dateStr, 7, 8))

\* !dateStr: undefined, null and the empty string are falsy.
falsy(dateStr) == dateStr.type # "string" \/ dateStr.value = ""

\* formatDate of src/src/lib/utils.ts, the module '@/lib/utils' names.
formatDate(dateStr) ==
    IF falsy(dateStr) \/ dateStr.value = "00000000" \/ Len(dateStr.value) # 8
    THEN JsNull
    ELSE JsStr(SubSeq(dateStr.value, 7, 8) \o "." \o SubSeq(dateStr.value, 5, 6)
               \o "." \o SubSeq(dateStr.value, 1, 4))

\* formatDate of the second copy of the utilities (src/unnamed/part_003):
\* the ISO branch destructures dateStr.split('-'), a missing part prints as
\* undefined.
formatDateIso(dateStr) ==
    IF falsy(dateStr) \/ dateStr.value = "00000000"
    THEN JsNull
    ELSE IF includes(dateStr.value, "-") /\ Len(dateStr.value) = 10
    THEN LET parts == split(dateStr.value, "-")
             part(i) == IF i <= Len(parts) THEN parts[i] ELSE "undefined"
         IN  JsStr(part(3) \o "." \o part(2) \o "." \o part(1))
    ELSE IF Len(dateStr.value) = 8
    THEN JsStr(SubSeq(dateStr.value, 7, 8) \o "." \o SubSeq(dateStr.value, 5, 6)
               \o "." \o SubSeq(dateStr.value, 1, 4))
    ELSE JsNull

\* The copies of formatDate in the repository, by file.
UtilsModules == {"src/lib/utils.ts", "unnamed/part_003"}

formatDateOf(module, dateStr) ==
    IF module = "src/lib/utils.ts" THEN formatDate(dateStr) ELSE formatDateIso(dateStr)

-----------------------------------------------------------------------------
(* Schema tables of src/src/lib/pdf417-parser.ts *)

getMuster10Schema ==
    [formCode |-> "10",
     name |-> "Muster 10 - Laborauftrag",
     fields |-> <<
        [name |-> "formularcode", index |-> 0, required |-> TRUE],
        [name |-> "formularcodeergaenzung", index |-> 1, required |-> TRUE],
        [name |-> "versionsnummer", index |-> 2, required |-> TRUE],
        [name |-> "anforderungsIdent", index |-> 3],
        [name |-> "nachname", index |-> 4, maxLength |-> 45],
        [name |-> "vorname", index |-> 5, maxLength |-> 45],
        [name |-> "geburtsdatum", index |-> 6, type |-> "date"],
        [name |-> "versicherungsschutzEnde", index |-> 7, type |-> "date"],
        [name |-> "kostentraegerkennung", index |-> 8, maxLength |-> 9],
        [name |-> "kostentraegername", index |-> 9],
        [name |-> "wopKennzeichen", index |-> 10],
        [name |-> "versichertenId", index |-> 11, maxLength |-> 12],
        [name |-> "versichertenart", index |-> 12, allowedValues |-> <<"1", "3", "5">>],
        [name |-> "besonderePersonengruppe", index |-> 13,
         allowedValues |-> <<"00", "04", "06", "07", "08", "09">>],
        [name |-> "dmpKennzeichnung", index |-> 14, maxLength |-> 2],
        [name |-> "bsnrErstveranlasser", index |-> 15, maxLength |-> 9],
        [name |-> "lanrErstveranlasser", index |-> 16, maxLength |-> 9],
        [name |-> "bsnrUeberweiser", index |-> 17, maxLength |-> 9],
        [name |-> "lanrUeberweiser", index |-> 18, maxLength |-> 9],
        [name |-> "ausstellungsdatum", index |-> 19, type |-> "date"],
        [name |-> "geschlecht", index |-> 20, allowedValues |-> <<"M", "W", "X", "D">>],
        [name |-> "titel", index |-> 21, maxLength |-> 20],
        [name |-> "plz", index |-> 22, maxLength |-> 10],
        [name |-> "ort", index |-> 23, maxLength |-> 40],
        [name |-> "strasse", index |-> 24, maxLength |-> 46],
        [name |-> "hausnummer", index |-> 25, maxLength |-> 9],
        [name |-> "diagnose", index |-> 26, maxLength |-> 70],
        [name |-> "verdachtsdiagnose", index |-> 27],
        [name |-> "befundkopie", index |-> 28],
        [name |-> "auftrag", index |-> 29]
     >>]

getMuster6Schema ==
    [formCode |-> "6",
     name |-> "Muster 6 - Ueberweisung",
     fields |-> <<
        [name |-> "formularcode", index |-> 0, required |-> TRUE],
        [name |-> "formularcodeergaenzung", index |-> 1],
        [name |-> "versionsnummer", index |-> 2, required |-> TRUE],
        [name |-> "reserved1", index |-> 3],
        [name |-> "nachname", index |-> 4, maxLength |-> 45],
        [name |-> "vorname", index |-> 5, maxLength |-> 45],
        [name |-> "geburtsdatum", index |-> 6, type |-> "date"],
        [name |-> "reserved2", index |-> 7],
        [name |-> "kostentraegerkennung", index |-> 8, maxLength |-> 9],
        [name |-> "kostentraegername", index |-> 9],
        [name |-> "wopKennzeichen", index |-> 10],
        [name |-> "versichertenId", index |-> 11, maxLength |-> 12],
        [name |-> "versichertenart", index |-> 12, allowedValues |-> <<"1", "3", "5">>],
        [name |-> "besonderePersonengruppe", index |-> 13,
         allowedValues |-> <<"00", "04", "06", "07", "08", "09">>],
        [name |-> "dmpKennzeichnung", index |-> 14, maxLength |-> 2],
        [name |-> "bsnrErstveranlasser", index |-> 15, maxLength |-> 9],
        [name |-> "lanrErstveranlasser", index |-> 16, maxLength |-> 9],
        [name |-> "ausstellungsdatum", index |-> 17, type |-> "date"],
        [name |-> "geschlecht", index |-> 18, allowedValues |-> <<"M", "W", "X", "D">>],
        [name |-> "titel", index |-> 19, maxLength |-> 20],
        [name |-> "reserved3", index |-> 20],
        [name |-> "reserved4", index |-> 21],
        [name |-> "plz", index |-> 22, maxLength |-> 10],
        [name |-> "ort", index |-> 23, maxLength |-> 40],
        [name |-> "strasse", index |-> 24, maxLength |-> 46],
        [name |-> "hausnummer", index |-> 25, maxLength |-> 9],
        [name |-> "reserved5", index |-> 26],
        [name |-> "fachbereich", index |-> 27],
        [name |-> "reserved6", index |-> 28],
        [name |-> "reserved7", index |-> 29],
        [name |-> "reserved8", index |-> 30],
        [name |-> "reserved9", index |-> 31],
        [name |-> "reserved10", index |-> 32],
        [name |-> "reserved11", index |-> 33],
        [name |-> "reserved12", index |-> 34],
        [name |-> "fachrichtung", index |-> 35],
        [name |-> "reserved13", index |-> 36],
        [name |-> "reserved14", index |-> 37],
        [name |-> "reserved15", index |-> 38],
        [name |-> "diagnose", index |-> 39],
        [name |-> "ueberweisungsgrund", index |-> 40]
     >>]

getMuster12Schema ==
    [formCode |-> "12",
     name |-> "Muster 12 - Verordnung haeuslicher Krankenpflege",
     fields |-> <<
        [name |-> "formularcode", index |-> 0, required |-> TRUE],
        [name |-> "formularcodeergaenzung", index |-> 1, required |-> TRUE],
        [name |-> "versionsnummer", index |-> 2, required |-> TRUE],
        [name |-> "nachname", index |-> 3, maxLength |-> 45],
        [name |-> "vorname", index |-> 4, maxLength |-> 45],
        [name |-> "geburtsdatum", index |-> 5, type |-> "date"],
        [name |-> "versicherungsschutzEnde", index |-> 6, type |-> "date"],
        [name |-> "kostentraegerkennung", index |-> 7, maxLength |-> 9],
        [name |-> "kostentraegername", index |-> 8],
        [name |-> "versichertenId", index |-> 9, maxLength |-> 12],
        [name |-> "versichertenart", index |-> 10, allowedValues |-> <<"1", "3", "5">>],
        [name |-> "besonderePersonengruppe", index |-> 11,
         allowedValues |-> <<"00", "04", "06", "07", "08", "09">>],
        [name |-> "ausstellungsdatum", index |-> 12, type |-> "date"],
        [name |-> "geschlecht", index |-> 13, allowedValues |-> <<"M", "W", "X", "D">>],
        [name |-> "strasse", index |-> 14, maxLength |-> 46],
        [name |-> "hausnummer", index |-> 15, maxLength |-> 9],
        [name |-> "plz", index |-> 16, maxLength |-> 10],
        [name |-> "ort", index |-> 17, maxLength |-> 40]
     >>]

getMuster16Schema ==
    [formCode |-> "16",
     name |-> "Muster 16 - Verordnung medizinischer Rehabilitation",
     fields |-> <<
        [name |-> "formularcode", index |-> 0, required |-> TRUE],
        [name |-> "formularcodeergaenzung", index |-> 1, required |-> TRUE],
        [name |-> "versionsnummer", index |-> 2, required |-> TRUE],
        [name |-> "nachname", index |-> 3, maxLength |-> 45],
        [name |-> "vorname", index |-> 4, maxLength |-> 45],
        [name |-> "geburtsdatum", index |-> 5, type |-> "date"],
        [name |-> "versicherungsschutzEnde", index |-> 6, type |-> "date"],
        [name |-> "kostentraegerkennung", index |-> 7, maxLength |-> 9],
        [name |-> "versichertenId", index |-> 8, maxLength |-> 12],
        [name |-> "versichertenart", index |-> 9, allowedValues |-> <<"1", "3", "5">>],
        [name |-> "ausstellungsdatum", index |-> 10, type |-> "date"],
        [name |-> "geschlecht", index |-> 11, allowedValues |-> <<"M", "W", "X", "D">>]
     >>]

\* The Map after the constructor ran: four set() calls, in this order.
\* Variant: the Muster 16 table reads position 11 a second time and writes
\* nachname twice.
initializeSchemas_DuplicateField ==
    objectSet(objectSet(objectSet(objectSet(<<>>,
        "10", getMuster10Schema),
        "6", getMuster6Schema),
        "12", getMuster12Schema),
        "16", [getMuster16Schema EXCEPT
                  !.fields = Append(@, [name |-> "nachname", index |-> 11])])

\* Variant: Muster 6 is registered under its two-digit spelling.
initializeSchemas_PaddedKey ==
    objectSet(objectSet(objectSet(objectSet(<<>>,
        "10", getMuster10Schema),
        "06", getMuster6Schema),
        "12", getMuster12Schema),
        "16", getMuster16Schema)

initializeSchemas ==
    objectSet(objectSet(objectSet(objectSet(<<>>,
        "10", getMuster10Schema),
        "6", getMuster6Schema),
        "12", getMuster12Schema),
        "16", getMuster16Schema)


-----------------------------------------------------------------------------
(* PDF417HealthcareParser *)

fieldSeparator == "\t"

\* formCode.replace(/^0+/, '')
RECURSIVE stripLeadingZeros(_)
stripLeadingZeros(s) ==
    IF s # "" /\ charAt(s, 1) = "0"
    THEN stripLeadingZeros(SubSeq(s, 2, Len(s)))
    ELSE s

\* Variant: replace(/^0/, '') removes one zero only.
normalizeFormCode_OneZero(formCode) ==
    LET normalized == IF formCode # "" /\ charAt(formCode, 1) = "0"
                      THEN SubSeq(formCode, 2, Len(formCode)) ELSE formCode
    IN  IF normalized # "" THEN normalized ELSE formCode

normalizeFormCode(formCode) ==
    LET normalized == stripLeadingZeros(formCode)
    IN  IF normalized # "" THEN normalized ELSE formCode

\* Variant: the schema of the latest getFormSchema call is kept and reused.
getSchemaForForm_LastLookup(formCode) ==
    IF lastQuery.op = "getFormSchema"
    THEN lastQuery.ret
    ELSE mapGet(schemas, normalizeFormCode(formCode))

getSchemaForForm(formCode) == mapGet(schemas, normalizeFormCode(formCode))

\* fields[fieldDef.index] || ''
\* Variant: a position beyond the payload reads as the text of undefined.
rawValue_Undefined(flds, fieldDef) ==
    IF fieldDef.index + 1 \in DOMAIN flds THEN flds[fieldDef.index + 1] ELSE "undefined"

\* Variant: the schema index is taken as one-based.
rawValue_OneBased(flds, fieldDef) ==
    IF fieldDef.index \in DOMAIN flds THEN flds[fieldDef.index] ELSE ""

rawValue(flds, fieldDef) ==
    IF fieldDef.index + 1 \in DOMAIN flds THEN flds[fieldDef.index + 1] ELSE ""

\* value after the transformations of lines 110-118. No schema of the registry
\* declares a transform, so the date branch is the only conversion.
mappedValue(flds, fieldDef) ==
    IF "type" \in DOMAIN fieldDef /\ fieldDef.type = "date"
    THEN parseGermanDate(rawValue(flds, fieldDef))
    ELSE JsStr(rawValue(flds, fieldDef))

\* The forEach body reaches result[fieldDef.name] = value (line 121).
\* Variant: reserved positions are stored like any other field.
assigns_EmitsReserved(flds, fieldDef) ==
    /\ rawValue(flds, fieldDef) # ""
    /\ mappedValue(flds, fieldDef) # JsNull
    /\ mappedValue(flds, fieldDef).value # ""

assigns(flds, fieldDef) ==
    /\ ~startsWith(fieldDef.name, "reserved")
    /\ rawValue(flds, fieldDef) # ""
    /\ mappedValue(flds, fieldDef) # JsNull
    /\ mappedValue(flds, fieldDef).value # ""

\* The object the forEach loop builds: one entry per assigned name, at the
\* position of its first assignment and with the value of its last one.
mapFieldsToSchema(flds, schema) ==
    LET assigned == SelectSeq(schema.fields, LAMBDA d : assigns(flds, d))
        n == Len(assigned)
        firsts == SelectSeq(indices(n),
                      LAMBDA i : \A j \in 1..(i - 1) : assigned[j].name # assigned[i].name)
        lastOf(name) == CHOOSE i \in 1..n :
                            /\ assigned[i].name = name
                            /\ \A j \in (i + 1)..n : assigned[j].name # name
    IN  [e \in 1..Len(firsts) |->
            [key |-> assigned[firsts[e]].name,
             value |-> mappedValue(flds, assigned[lastOf(assigned[firsts[e]].name)]).value]]

\* Variant: only the compact form /^\d{8}$/ is accepted.
datePattern_CompactOnly(value) ==
    Len(value) = 8 /\ allDigits(value)

\* /^\d{4}-\d{2}-\d{2}$|^\d{8}$/.test(value)
datePattern(value) ==
    \/ /\ Len(value) = 10
       /\ allDigits(SubSeq(value, 1, 4)) /\ charAt(value, 5) = "-"
       /\ allDigits(SubSeq(value, 6, 7)) /\ charAt(value, 8) = "-"
       /\ allDigits(SubSeq(value, 9, 10))
    \/ /\ Len(value) = 8
       /\ allDigits(value)

\* A property read used as a condition: absent and "" are both falsy.
truthy(data, k) == objectHas(data, k) /\ objectGet(data, k) # ""

\* The date check of one entry of Object.entries(data) fails (lines 145-149).
invalidDate(entry) ==
    includes(entry.key, "datum") /\ entry.value # "" /\ ~datePattern(entry.value)

versichertenartValues == {"1", "3", "5"}
geschlechtValues == {"M", "W", "X", "D"}

\* Variant: only the form code is required.
identificationErrors_CodeOnly(data) ==
    IF ~truthy(data, "formularcode")
    THEN <<"Missing required form identification fields">>
    ELSE <<>>

\* Variant: the error is raised only when both fields are missing.
identificationErrors_BothMissing(data) ==
    IF ~truthy(data, "formularcode") /\ ~truthy(data, "versionsnummer")
    THEN <<"Missing required form identification fields">>
    ELSE <<>>

\* Lines 139-141.
identificationErrors(data) ==
    IF ~truthy(data, "formularcode") \/ ~truthy(data, "versionsnummer")
    THEN <<"Missing required form identification fields">>
    ELSE <<>>

\* Lines 144-153.
dateErrors(data) ==
    LET bad == SelectSeq(data, invalidDate)
    IN  [i \in 1..Len(bad) |->
            "Invalid date format for " \o bad[i].key \o ": " \o bad[i].value]

\* Variant: the allowed set lacks "5".
insuranceTypeErrors_Without5(data) ==
    IF truthy(data, "versichertenart")
       /\ objectGet(data, "versichertenart") \notin {"1", "3"}
    THEN <<"Invalid insurance type: " \o objectGet(data, "versichertenart")>>
    ELSE <<>>

\* Lines 156-161.
insuranceTypeErrors(data) ==
    IF truthy(data, "versichertenart")
       /\ objectGet(data, "versichertenart") \notin versichertenartValues
    THEN <<"Invalid insurance type: " \o objectGet(data, "versichertenart")>>
    ELSE <<>>

\* Lines 163-168.
genderErrors(data) ==
    IF truthy(data, "geschlecht")
       /\ objectGet(data, "geschlecht") \notin geschlechtValues
    THEN <<"Invalid gender value: " \o objectGet(data, "geschlecht")>>
    ELSE <<>>

\* Variant: the validator returns at the first rule that fails.
validateParsedData_ShortCircuit(data) ==
    IF identificationErrors(data) # <<>> THEN identificationErrors(data)
    ELSE IF dateErrors(data) # <<>> THEN SubSeq(dateErrors(data), 1, 1)
    ELSE IF insuranceTypeErrors(data) # <<>> THEN insuranceTypeErrors(data)
    ELSE genderErrors(data)

validateParsedData(data) ==
    identificationErrors(data) \o dateErrors(data)
        \o insuranceTypeErrors(data) \o genderErrors(data)

\* Variant: the form type is taken from the first token instead of the default.
insufficientFieldsResult_FromToken(flds) ==
    [formType |-> normalizeFormCode(flds[1]),
     isValid |-> FALSE,
     errors |-> <<"Invalid barcode format: insufficient fields">>,
     data |-> <<>>]

\* The result returned at lines 32-37.
insufficientFieldsResult(flds) ==
    [formType |-> "10",
     isValid |-> FALSE,
     errors |-> <<"Invalid barcode format: insufficient fields">>,
     data |-> <<>>]

\* Variant: data.formularcode carries the normalized code, not the token.
unsupportedFormResult_Normalized(flds) ==
    [formType |-> normalizeFormCode(flds[1]),
     isValid |-> FALSE,
     errors |-> <<"Unsupported form type: " \o flds[1]>>,
     data |-> <<[key |-> "formularcode", value |-> normalizeFormCode(flds[1])],
                [key |-> "formularcodeergaenzung", value |-> flds[2]],
                [key |-> "versionsnummer", value |-> flds[3]]>>]

\* The result returned at lines 54-59.
unsupportedFormResult(flds) ==
    [formType |-> normalizeFormCode(flds[1]),
     isValid |-> FALSE,
     errors |-> <<"Unsupported form type: " \o flds[1]>>,
     data |-> <<[key |-> "formularcode", value |-> flds[1]],
                [key |-> "formularcodeergaenzung", value |-> flds[2]],
                [key |-> "versionsnummer", value |-> flds[3]]>>]

\* Variant: formType is the token as received.
validatedResult_RawFormType(flds, schema) ==
    LET res == mapFieldsToSchema(flds, schema)
        errs == validateParsedData(res)
    IN  [formType |-> flds[1],
         isValid |-> (Len(errs) = 0),
         errors |-> errs,
         data |-> res]

\* The result returned at lines 63-74.
\* Variant: a failed validation discards the mapped record.
validatedResult_DropsInvalid(flds, schema) ==
    LET res == mapFieldsToSchema(flds, schema)
        errs == validateParsedData(res)
    IN  [formType |-> normalizeFormCode(flds[1]),
         isValid |-> (Len(errs) = 0),
         errors |-> errs,
         data |-> IF Len(errs) = 0 THEN res ELSE <<>>]

\* Variant: the outcome is reported valid whatever the validator found.
validatedResult_AlwaysValid(flds, schema) ==
    LET res == mapFieldsToSchema(flds, schema)
        errs == validateParsedData(res)
    IN  [formType |-> normalizeFormCode(flds[1]),
         isValid |-> TRUE,
         errors |-> errs,
         data |-> res]

validatedResult(flds, schema) ==
    LET res == mapFieldsToSchema(flds, schema)
        errs == validateParsedData(res)
    IN  [formType |-> normalizeFormCode(flds[1]),
         isValid |-> (Len(errs) = 0),
         errors |-> errs,
         data |-> res]

\* parse from the token array on (lines 30-75).
parseFields(flds) ==
    IF Len(flds) < 3 THEN insufficientFieldsResult(flds)
    ELSE IF getSchemaForForm(flds[1]) = JsUndefined THEN unsupportedFormResult(flds)
    ELSE validatedResult(flds, getSchemaForForm(flds[1]))

getSupportedForms ==
    [i \in 1..Len(schemas) |->
        [code |-> schemas[i].value.formCode, name |-> schemas[i].value.name]]

getFormSchema(formCode) == mapGet(schemas, normalizeFormCode(formCode))

-----------------------------------------------------------------------------
(* Inputs: the strings a caller can hand to parse *)

MaxRawLen == 4      \* longest string enumerated character by character
MaxStepLen == 3     \* longest raw string of the statement-by-statement runs
MaxFrameHandle == 2 \* animation-frame handles told apart
MaxZeroPad == 2     \* most zeros put in front of a form code
MaxIntervals == 5   \* most interval timers alive at once
MaxInFlight == 5    \* most scanFrame calls awaiting a decode at once

RawAlphabet == {"\t", "\n", "\r", " ", "6"}

RECURSIVE StringsOfLen(_)
StringsOfLen(n) ==
    IF n = 0 THEN {""}
    ELSE {c \o s : c \in RawAlphabet, s \in StringsOfLen(n - 1)}

RawStrings == UNION {StringsOfLen(n) : n \in 0..MaxRawLen}

RECURSIVE join(_, _)
join(tokens, sep) ==
    IF Len(tokens) = 0 THEN ""
    ELSE IF Len(tokens) = 1 THEN tokens[1]
    ELSE tokens[1] \o sep \o join(Tail(tokens), sep)

RECURSIVE zeros(_)
zeros(n) == IF n = 0 THEN "" ELSE "0" \o zeros(n - 1)

\* The sample payloads of test-barcode-data.tsx (umlauts and sharp s written
\* out in ASCII).
Muster10Sample ==
    <<"10", "a", "01", "REQ12345", "Mustermann", "Max", "19850615", "20241231",
      "123456789", "AOK Bayern", "BY", "A123456789", "1", "00", "01",
      "123456789", "987654321", "123456789", "987654321", "20241226", "M",
      "Dr.", "80331", "Muenchen", "Maximilianstrasse", "1",
      "V70.9 - Routineuntersuchung", "", "Ja", "Blutbild, Leberwerte">>

\* A Muster 6 payload with a token for each of the 41 positions of the
\* schema, the reserved ones empty.
Muster6Sample ==
    <<"06", "a", "11", "", "Leuthaeuser", "Angelika", "19740414", "",
      "105177505", "Techniker Krankenkasse", "46", "Y207887976", "1", "00",
      "00", "409601100", "948301053", "20231116", "W", "", "", "", "60322",
      "Frankfurt", "Soemmerringstr.", "12", "", "Radiologie", "", "", "", "",
      "", "", "", "3", "", "", "", "bek. Multiple Sklerose", "Erbitte cMRT">>

Muster12Sample ==
    <<"12", "a", "01", "Weber", "Hans", "19401205", "20241231", "555666777",
      "Barmer GEK", "C555666777", "1", "07", "20241226", "M", "Hauptstrasse",
      "15", "10115", "Berlin">>

Muster16Sample ==
    <<"16", "a", "01", "Fischer", "Maria", "19751120", "20241231",
      "888999000", "D888999000", "1", "20241226", "W">>

SamplePayloads == {Muster10Sample, Muster6Sample, Muster12Sample, Muster16Sample}

\* Values put in place of one token of a sample.
TokenValues ==
    {"", "3", "9", "W", "Q", "04", "99", "123", "1234567890", "00000000",
     "20241399", "2024AB31", "2024-12-31", "5\r\n"}

BaseCodes == {"10", "6", "12", "16", "17", "99", "", "x"}
CodeSpellings == {zeros(z) \o c : z \in 0..MaxZeroPad, c \in BaseCodes}

Frames == {"", " ", "\n", "\r\n", "\t", "\t\t "}

Substituted ==
    UNION {{join([p EXCEPT ![i] = v], "\t") : i \in 1..Len(p), v \in TokenValues}
           : p \in SamplePayloads}

Truncated ==
    UNION {{join(SubSeq(p, 1, n), "\t") : n \in 0..Len(p)} : p \in SamplePayloads}

Recoded ==
    {join([p EXCEPT ![1] = c], "\t") : p \in SamplePayloads \cup {<<"99", "a", "01">>,
                                         <<"99", "", "", "extra">>}, c \in CodeSpellings}

Framed ==
    {pre \o join(p, "\t") \o post :
        p \in {Muster16Sample, <<"16", "a", "01", "", "">>, <<"99", "a", "", "">>},
        pre \in Frames, post \in Frames}

\* A complete Muster 10 laboratory request as one tab-separated string.
Muster10Scenario ==
    "10\ta\t01\tREQ1\tMustermann\tMax\t19850615\t20241231\t123456789\tAOK Bayern\tBY\tA123456789\t1\t00\t01\t123456789\t987654321\t123456789\t987654321\t20241226\tM\tDr.\t80331\tMünchen\tMaximilianstraße\t1\tV70.9\t\tJa\tBlutbild"

\* Sample payloads with one of the tokens around the date positions replaced.
DisplayInputs ==
    {JsStr(join([p EXCEPT ![i] = v], "\t")) :
        p \in SamplePayloads, i \in 6..8, v \in TokenValues}

\* The data keys the form views pass to formatDate.
DisplayedDateKeys == {"geburtsdatum", "versicherungsschutzEnde", "ausstellungsdatum"}

\* The token a damaged payload carries in the position of a checked field.
DamagedToken(name) ==
    CASE name = "versionsnummer" -> ""
      [] name = "versichertenart" -> "9"
      [] name = "geschlecht" -> "Q"
      [] OTHER -> "2024AB31"

CheckedNames ==
    {"versionsnummer", "geburtsdatum", "ausstellungsdatum", "versichertenart", "geschlecht"}

\* A sample payload with the tokens of the fields in names damaged.
Damaged(p, schema, names) ==
    [i \in 1..Len(p) |->
        IF \E j \in 1..Len(schema.fields) :
               schema.fields[j].index + 1 = i /\ schema.fields[j].name \in names
        THEN DamagedToken(schema.fields[CHOOSE j \in 1..Len(schema.fields) :
                                           schema.fields[j].index + 1 = i].name)
        ELSE p[i]]

\* Sample payloads breaking several validation rules at once.
MultiError ==
    {join(Damaged(ps[1], ps[2], names), "\t") :
        ps \in {<<Muster10Sample, getMuster10Schema>>, <<Muster6Sample, getMuster6Schema>>,
                <<Muster12Sample, getMuster12Schema>>, <<Muster16Sample, getMuster16Schema>>},
        names \in SUBSET CheckedNames}

\* Inputs of the statement-by-statement runs: null, every short raw string
\* and short payloads under every spelling of every code.
StepInputs ==
    {JsNull} \cup
    {JsStr(s) : s \in UNION {StringsOfLen(n) : n \in 0..MaxStepLen}} \cup
    {JsStr(join([p EXCEPT ![1] = c], "\t")) :
        p \in {<<"99", "a", "01">>, <<"10", "a">>,
               <<"16", "a", "", "Fischer", "Maria", "2024AB31">>},
        c \in CodeSpellings}

BarcodeInputs ==
    {JsNull} \cup
    {JsStr(s) : s \in RawStrings \cup Substituted \cup Truncated \cup Recoded \cup Framed
                       \cup {Muster10Scenario} \cup MultiError}

RegistryInputs == {JsNull} \cup {JsStr(s) : s \in Recoded \cup Framed}

LookupCodes ==
    {zeros(z) \o c : z \in 0..MaxZeroPad, c \in {"6", "10", "12", "16", "60", "99", ""}}

-----------------------------------------------------------------------------
(* HTMLMediaElement.readyState *)

HAVE_NOTHING == 0
HAVE_ENOUGH_DATA == 4

-----------------------------------------------------------------------------
(* The state machine *)

\* No scanFromCamera call has been made.
CameraIdle ==
    /\ camPc = "Idle"
    /\ promise = [state |-> "none"]
    /\ stream = "none"
    /\ scanning = FALSE
    /\ scanCount = 0
    /\ readyState = HAVE_NOTHING
    /\ frameHandle = 0

\* The RealTimeBarcodeScanner component as mounted (lines 24-37).
ScannerIdle ==
    /\ isStreaming = FALSE
    /\ isScanning = FALSE
    /\ isScanningRef = FALSE
    /\ scanIntervalRef = FALSE
    /\ activeIntervals = 0
    /\ decodesInFlight = 0

\* A parser that is constructed and not called.
ParserIdle ==
    /\ schemas = initializeSchemas
    /\ barcodeData = JsNull
    /\ sanitizedData = ""
    /\ fields = <<>>
    /\ result = [status |-> "none"]
    /\ lastQuery = [op |-> "none"]
    /\ pc = "Start"

NoResult == [status |-> "none"]
NoQuery == [op |-> "none"]

Init ==
    /\ schemas = initializeSchemas
    /\ barcodeData \in BarcodeInputs
    /\ sanitizedData = ""
    /\ fields = <<>>
    /\ result = NoResult
    /\ lastQuery = NoQuery
    /\ pc = "Start"
    /\ CameraIdle /\ ScannerIdle

\* The return statement a token array leaves parse by (lines 30, 52, 69).
parseTerminal(flds) ==
    IF Len(flds) < 3 THEN "InsufficientFields"
    ELSE IF getSchemaForForm(flds[1]) = JsUndefined THEN "UnsupportedForm"
    ELSE "Validated"

\* parser.parse(barcodeData), the whole call in one step.
CallParse ==
    /\ IF sanitizeInputThrows(barcodeData)
       THEN /\ result' = [status |-> "threw", error |-> "TypeError"]
            /\ UNCHANGED <<sanitizedData, fields>>
       ELSE /\ sanitizedData' = sanitizeInput(barcodeData.value)
            /\ fields' = split(sanitizedData', fieldSeparator)
            /\ result' = [status |-> "returned", value |-> parseFields(fields')]
    /\ pc' = IF sanitizeInputThrows(barcodeData) THEN "Threw" ELSE parseTerminal(fields')
    /\ UNCHANGED <<schemas, barcodeData, lastQuery>>
    /\ UNCHANGED <<cameraVars, scannerVars>>

\* parser.getSupportedForms()
CallGetSupportedForms ==
    /\ lastQuery' = [op |-> "getSupportedForms", ret |-> getSupportedForms]
    /\ UNCHANGED <<schemas, barcodeData, sanitizedData, fields, result, pc>>
    /\ UNCHANGED <<cameraVars, scannerVars>>

\* parser.getFormSchema(formCode)
CallGetFormSchema(formCode) ==
    /\ lastQuery' = [op |-> "getFormSchema", formCode |-> formCode,
                     ret |-> getFormSchema(formCode)]
    /\ UNCHANGED <<schemas, barcodeData, sanitizedData, fields, result, pc>>
    /\ UNCHANGED <<cameraVars, scannerVars>>

Next == CallParse

Spec == Init /\ [][Next]_vars

\* The parser object with its registry introspection calls interleaved.
InitRegistry ==
    /\ schemas = initializeSchemas
    /\ barcodeData \in RegistryInputs
    /\ sanitizedData = ""
    /\ fields = <<>>
    /\ result = NoResult
    /\ lastQuery = NoQuery
    /\ pc = "Start"
    /\ CameraIdle /\ ScannerIdle

NextRegistry ==
    \/ CallParse
    \/ CallGetSupportedForms
    \/ \E formCode \in LookupCodes : CallGetFormSchema(formCode)

SpecRegistry == InitRegistry /\ [][NextRegistry]_vars

\* formatDate(data[key]) as the form views call it on a parse result; an
\* absent key is passed as undefined.
CallFormatDate(module, key) ==
    /\ result.status = "returned"
    /\ LET arg == IF objectHas(result.value.data, key)
                  THEN JsStr(objectGet(result.value.data, key))
                  ELSE JsUndefined
       IN  lastQuery' = [op |-> "formatDate", module |-> module, key |-> key,
                         arg |-> arg, ret |-> formatDateOf(module, arg)]
    /\ UNCHANGED <<schemas, barcodeData, sanitizedData, fields, result, pc>>
    /\ UNCHANGED <<cameraVars, scannerVars>>

\* A parse followed by the display formatting of its dates.
InitDisplay ==
    /\ schemas = initializeSchemas
    /\ barcodeData \in DisplayInputs
    /\ sanitizedData = ""
    /\ fields = <<>>
    /\ result = NoResult
    /\ lastQuery = NoQuery
    /\ pc = "Start"
    /\ CameraIdle /\ ScannerIdle

NextDisplay ==
    \/ CallParse
    \/ \E module \in UtilsModules, key \in DisplayedDateKeys : CallFormatDate(module, key)

SpecDisplay == InitDisplay /\ [][NextDisplay]_vars

\* parse statement by statement. Lines 24-25: sanitize and split; a null
\* argument raises inside sanitizeInput.
StepSanitizeAndSplit ==
    /\ pc = "Start"
    /\ IF sanitizeInputThrows(barcodeData)
       THEN /\ result' = [status |-> "threw", error |-> "TypeError"]
            /\ pc' = "Threw"
            /\ UNCHANGED <<sanitizedData, fields>>
       ELSE /\ sanitizedData' = sanitizeInput(barcodeData.value)
            /\ fields' = split(sanitizedData', fieldSeparator)
            /\ pc' = "TokenCountCheck"
            /\ UNCHANGED result
    /\ UNCHANGED <<schemas, barcodeData, lastQuery>>
    /\ UNCHANGED <<cameraVars, scannerVars>>

\* Lines 30-38: fields.length < 3 returns the fixed failure.
StepTokenCountCheck ==
    /\ pc = "TokenCountCheck"
    /\ IF Len(fields) < 3
       THEN /\ result' = [status |-> "returned", value |-> insufficientFieldsResult(fields)]
            /\ pc' = "InsufficientFields"
       ELSE /\ pc' = "SchemaLookup"
            /\ UNCHANGED result
    /\ UNCHANGED <<schemas, barcodeData, sanitizedData, fields, lastQuery>>
    /\ UNCHANGED <<cameraVars, scannerVars>>

\* Variant: an unregistered form code is raised as an exception.
StepSchemaLookup_Throws ==
    /\ pc = "SchemaLookup"
    /\ IF getSchemaForForm(fields[1]) = JsUndefined
       THEN /\ result' = [status |-> "threw", error |-> "Error"]
            /\ pc' = "Threw"
       ELSE /\ pc' = "MapAndValidate"
            /\ UNCHANGED result
    /\ UNCHANGED <<schemas, barcodeData, sanitizedData, fields, lastQuery>>
    /\ UNCHANGED <<cameraVars, scannerVars>>

\* Lines 40-60: the schema lookup; no schema returns the unsupported-form
\* failure.
StepSchemaLookup ==
    /\ pc = "SchemaLookup"
    /\ IF getSchemaForForm(fields[1]) = JsUndefined
       THEN /\ result' = [status |-> "returned", value |-> unsupportedFormResult(fields)]
            /\ pc' = "UnsupportedForm"
       ELSE /\ pc' = "MapAndValidate"
            /\ UNCHANGED result
    /\ UNCHANGED <<schemas, barcodeData, sanitizedData, fields, lastQuery>>
    /\ UNCHANGED <<cameraVars, scannerVars>>

\* Lines 62-75: map, validate and return.
StepMapAndValidate ==
    /\ pc = "MapAndValidate"
    /\ result' = [status |-> "returned",
                  value |-> validatedResult(fields, getSchemaForForm(fields[1]))]
    /\ pc' = "Validated"
    /\ UNCHANGED <<schemas, barcodeData, sanitizedData, fields, lastQuery>>
    /\ UNCHANGED <<cameraVars, scannerVars>>

InitSteps ==
    /\ schemas = initializeSchemas
    /\ barcodeData \in StepInputs
    /\ sanitizedData = ""
    /\ fields = <<>>
    /\ result = NoResult
    /\ lastQuery = NoQuery
    /\ pc = "Start"
    /\ CameraIdle /\ ScannerIdle

NextSteps ==
    \/ StepSanitizeAndSplit
    \/ StepTokenCountCheck
    \/ StepSchemaLookup
    \/ StepMapAndValidate

SpecSteps == InitSteps /\ [][NextSteps]_vars

\* parse is synchronous: a statement that can run does run.
FairSpecSteps == SpecSteps /\ WF_vars(NextSteps)

-----------------------------------------------------------------------------
(* BarcodeScanner.scanFromCamera, src/src/lib/barcode-scanner.ts 454-579 *)

\* const maxScans = 600 (line 518)
maxScans == 600

\* cleanup() with a stream: the flag is cleared and every track stopped.
Cleanup ==
    /\ scanning' = FALSE
    /\ stream' = IF stream = "none" THEN "none" ELSE "stopped"

\* requestAnimationFrame(scanFrame)
RequestAnimationFrame ==
    /\ camPc' = "FrameRequested"
    /\ frameHandle' = (frameHandle + 1) % MaxFrameHandle

\* The synchronous head of scanFrame (lines 521-529) entered with the flag
\* and the count given: not ready asks for another frame without counting,
\* ready counts and starts a decode.
ScanFrame(flag, count) ==
    IF ~flag \/ readyState # HAVE_ENOUGH_DATA
    THEN /\ scanCount' = count
         /\ IF flag /\ count < maxScans
            THEN RequestAnimationFrame
            ELSE camPc' = "Abandoned" /\ UNCHANGED frameHandle
    ELSE /\ scanCount' = count + 1
         /\ camPc' = "Decoding"
         /\ UNCHANGED frameHandle

\* scanFromCamera(): unsupported cameras throw (lines 458-472), otherwise the
\* promise is created and getUserMedia requested.
CallScanFromCamera(supported) ==
    /\ camPc = "Idle"
    /\ IF supported
       THEN /\ camPc' = "RequestingCamera"
            /\ promise' = [state |-> "pending"]
       ELSE /\ camPc' = "Done"
            /\ promise' = [state |-> "rejected", reason |-> "Camera access not available."]
    /\ UNCHANGED <<stream, scanning, scanCount, readyState, frameHandle>>
    /\ UNCHANGED <<parserVars, scannerVars>>

\* getUserMedia resolves; the video element is created (lines 490-505).
GetUserMediaGranted ==
    /\ camPc = "RequestingCamera"
    /\ stream' = "live"
    /\ camPc' = "AwaitingMetadata"
    /\ UNCHANGED <<promise, scanning, scanCount, readyState, frameHandle>>
    /\ UNCHANGED <<parserVars, scannerVars>>

\* getUserMedia rejects: the catch block cleans up and rejects (560-577).
GetUserMediaDenied ==
    /\ camPc = "RequestingCamera"
    /\ Cleanup
    /\ promise' = [state |-> "rejected", reason |-> "Camera access denied."]
    /\ camPc' = "Done"
    /\ UNCHANGED <<scanCount, readyState, frameHandle>>
    /\ UNCHANGED <<parserVars, scannerVars>>

\* onloadedmetadata fires: play, scanning = true, scanCount = 0 and the first
\* scanFrame() call (lines 507-518, 558).
LoadedMetadata ==
    /\ camPc = "AwaitingMetadata"
    /\ scanning' = TRUE
    /\ ScanFrame(TRUE, 0)
    /\ UNCHANGED <<promise, stream, readyState>>
    /\ UNCHANGED <<parserVars, scannerVars>>

\* The browser runs the requested animation frame callback.
AnimationFrame ==
    /\ camPc = "FrameRequested"
    /\ ScanFrame(scanning, scanCount)
    /\ UNCHANGED <<promise, stream, scanning, readyState>>
    /\ UNCHANGED <<parserVars, scannerVars>>

\* decodeFromImageElement settles (lines 533-554): a text resolves; nothing
\* found rejects with the timeout at maxScans and asks for a frame before.
DecodeCompletes(found) ==
    /\ camPc = "Decoding"
    /\ IF found
       THEN /\ Cleanup
            /\ promise' = [state |-> "resolved", value |-> "text"]
            /\ camPc' = "Done"
            /\ UNCHANGED frameHandle
       ELSE IF scanCount >= maxScans
       THEN /\ Cleanup
            /\ promise' = [state |-> "rejected", reason |-> "Camera scan timeout"]
            /\ camPc' = "Done"
            /\ UNCHANGED frameHandle
       ELSE /\ RequestAnimationFrame
            /\ UNCHANGED <<promise, stream, scanning>>
    /\ UNCHANGED <<scanCount, readyState>>
    /\ UNCHANGED <<parserVars, scannerVars>>

\* The video element moves to another ready state.
ReadyStateChanges ==
    /\ camPc \in {"AwaitingMetadata", "FrameRequested", "Decoding"}
    /\ readyState' \in (HAVE_NOTHING..HAVE_ENOUGH_DATA) \ {readyState}
    /\ UNCHANGED <<camPc, promise, stream, scanning, scanCount, frameHandle>>
    /\ UNCHANGED <<parserVars, scannerVars>>

InitCamera == ParserIdle /\ CameraIdle /\ ScannerIdle

NextCamera ==
    \/ \E supported \in BOOLEAN : CallScanFromCamera(supported)
    \/ GetUserMediaGranted
    \/ GetUserMediaDenied
    \/ LoadedMetadata
    \/ AnimationFrame
    \/ \E found \in BOOLEAN : DecodeCompletes(found)
    \/ ReadyStateChanges

SpecCamera == InitCamera /\ [][NextCamera]_vars

\* The browser settles getUserMedia, delivers loadedmetadata, runs every
\* requested animation frame and settles every decode; it owes the page no
\* particular ready state.
FairSpecCamera ==
    /\ SpecCamera
    /\ WF_vars(GetUserMediaGranted \/ GetUserMediaDenied)
    /\ WF_vars(LoadedMetadata)
    /\ WF_vars(AnimationFrame)
    /\ WF_vars(\E found \in BOOLEAN : DecodeCompletes(found))

-----------------------------------------------------------------------------
(* RealTimeBarcodeScanner: camera, interval timer and scanFrame *)

\* autoStopOnDetection = true, the default of the prop.
autoStopOnDetection == TRUE

\* stopCamera: stops the tracks, clears the timer scanIntervalRef holds and
\* resets the streaming and scanning flags and the re-entrancy guard, whether
\* or not a scanFrame is awaiting its decode.
StopCameraEffect ==
    /\ activeIntervals' =
           IF scanIntervalRef THEN activeIntervals - 1 ELSE activeIntervals
    /\ scanIntervalRef' = FALSE
    /\ isStreaming' = FALSE
    /\ isScanning' = FALSE
    /\ isScanningRef' = FALSE

\* startCamera, with getUserMedia granted or denied.
StartCamera(granted) ==
    /\ ~isStreaming
    /\ isStreaming' = granted
    /\ UNCHANGED <<isScanning, isScanningRef, scanIntervalRef,
                   activeIntervals, decodesInFlight>>
    /\ UNCHANGED <<parserVars, cameraVars>>

\* The Stop Scanner button, shown while streaming.
StopCamera ==
    /\ isStreaming
    /\ StopCameraEffect
    /\ UNCHANGED decodesInFlight
    /\ UNCHANGED <<parserVars, cameraVars>>

\* startScanning: sets a new interval timer and stores it in
\* scanIntervalRef; a timer the ref already holds is not cleared.
StartScanning ==
    /\ isStreaming
    /\ activeIntervals < MaxIntervals
    /\ activeIntervals' = activeIntervals + 1
    /\ scanIntervalRef' = TRUE
    /\ UNCHANGED <<isStreaming, isScanning, isScanningRef, decodesInFlight>>
    /\ UNCHANGED <<parserVars, cameraVars>>

\* stopScanning: clears the timer of scanIntervalRef and resets the
\* scanning flag and the re-entrancy guard.
StopScanning ==
    /\ scanIntervalRef
    /\ activeIntervals' = activeIntervals - 1
    /\ scanIntervalRef' = FALSE
    /\ isScanning' = FALSE
    /\ isScanningRef' = FALSE
    /\ UNCHANGED <<isStreaming, decodesInFlight>>
    /\ UNCHANGED <<parserVars, cameraVars>>

\* The timeout of the effect that runs when the video has data while
\* streaming: it calls startScanning.
VideoReadyTimeout == StartScanning

\* The Resume Scanning button, shown while streaming and not scanning.
ClickResume == ~isScanning /\ StartScanning

\* The Pause Scanning button, shown while streaming and scanning.
ClickPause == isStreaming /\ isScanning /\ StopScanning

\* An interval timer fires scanFrame. It returns at once when not streaming
\* or when the re-entrancy guard is set, and when the video has no
\* dimensions yet; otherwise it sets the guard and awaits the decode.
\* (isStreaming is read here as the component holds it; the callback of a
\* timer that outlived stopCamera still sees it true.)
Tick(videoReady) ==
    /\ activeIntervals > 0
    /\ IF ~isStreaming \/ isScanningRef \/ ~videoReady
       THEN UNCHANGED scannerVars
       ELSE /\ decodesInFlight < MaxInFlight
            /\ isScanningRef' = TRUE
            /\ isScanning' = TRUE
            /\ decodesInFlight' = decodesInFlight + 1
            /\ UNCHANGED <<isStreaming, scanIntervalRef, activeIntervals>>
    /\ UNCHANGED <<parserVars, cameraVars>>

\* A decode awaited by scanFrame settles, with a barcode or without. A
\* barcode stops the camera (autoStopOnDetection); the finally block resets
\* the scanning flag and the re-entrancy guard.
ScanDecodeCompletes(found) ==
    /\ decodesInFlight > 0
    /\ decodesInFlight' = decodesInFlight - 1
    /\ IF found /\ autoStopOnDetection
       THEN StopCameraEffect
       ELSE /\ isScanningRef' = FALSE
            /\ isScanning' = FALSE
            /\ UNCHANGED <<isStreaming, scanIntervalRef, activeIntervals>>
    /\ UNCHANGED <<parserVars, cameraVars>>

InitScanner == ParserIdle /\ CameraIdle /\ ScannerIdle

NextScanner ==
    \/ \E granted \in BOOLEAN : StartCamera(granted)
    \/ StopCamera
    \/ VideoReadyTimeout
    \/ ClickResume
    \/ ClickPause
    \/ \E videoReady \in BOOLEAN : Tick(videoReady)
    \/ \E found \in BOOLEAN : ScanDecodeCompletes(found)

SpecScanner == InitScanner /\ [][NextScanner]_vars

\* Shorthands for the formulas below.
Returned == result.status = "returned"
Res == result.value
Data == result.value.data

TypeOK ==
    /\ result.status \in {"none", "threw", "returned"}
    /\ Returned => /\ Res.isValid \in BOOLEAN
                   /\ Len(fields) >= 1

-----------------------------------------------------------------------------
(* Vocabulary of the properties *)

\* Number of tab characters of a string.
tabCount(s) == Cardinality({i \in 1..Len(s) : charAt(s, i) = "\t"})

\* Number of "0" characters a code starts with, and the code without them.
leadingZeros(c) ==
    Cardinality({k \in 1..Len(c) : \A i \in 1..k : charAt(c, i) = "0"})
dropZeros(c) == SubSeq(c, leadingZeros(c) + 1, Len(c))

RegisteredCodes == {"10", "6", "12", "16"}

\* The last parse returned through the paths of lines 32, 54 and 69.
Insufficient == Returned /\ tabCount(sanitizedData) < 2
Unsupported ==
    Returned /\ tabCount(sanitizedData) >= 2 /\ dropZeros(fields[1]) \notin RegisteredCodes
Validated ==
    Returned /\ tabCount(sanitizedData) >= 2 /\ dropZeros(fields[1]) \in RegisteredCodes

\* The schema a validated payload was mapped with.
SchemaOf(code) == objectGet(schemas, dropZeros(code))

-----------------------------------------------------------------------------
(* C1..C10 *)

\* C1: sparse mapping law. On every path of parse a field whose source token
\* is the empty string is no key of data, and no key of data holds an empty
\* value.
C1_SparseMapping ==
    Returned =>
        /\ \A i \in 1..Len(Data) : Data[i].value # ""
        /\ Unsupported =>
              /\ fields[2] = "" => ~objectHas(Data, "formularcodeergaenzung")
              /\ fields[3] = "" => ~objectHas(Data, "versionsnummer")
        /\ Validated =>
              \A k \in 1..Len(SchemaOf(fields[1]).fields) :
                  LET def == SchemaOf(fields[1]).fields[k]
                  IN  (def.index + 1 \notin DOMAIN fields \/ fields[def.index + 1] = "")
                          => ~objectHas(Data, def.name)

\* C2: a payload whose sanitized form has fewer than three tokens gets the
\* terminal failure result: invalid, exactly the one 'insufficient fields'
\* error, the form type of the first registered schema, and no data.
C2_InsufficientFields ==
    Insufficient =>
        /\ Len(fields) < 3
        /\ Res.isValid = FALSE
        /\ Res.errors = <<"Invalid barcode format: insufficient fields">>
        /\ Res.formType = "10"
        /\ Res.formType = schemas[1].key
        /\ Res.data = <<>>

C2_Witness ==
    /\ Insufficient
    /\ Len(fields) = 2
    /\ fields[1] = "16"

\* C3: a payload of three or more tokens whose normalized form code is not
\* registered is answered, not thrown: invalid, one error naming the code,
\* and data holding exactly the three identification tokens.
C3_UnsupportedForm ==
    /\ (result.status = "threw") => barcodeData = JsNull
    /\ Unsupported =>
        /\ Res.isValid = FALSE
        /\ Len(Res.errors) = 1
        /\ startsWith(Res.errors[1], "Unsupported form type")
        /\ includes(Res.errors[1], fields[1])
        /\ Len(Data) = 3
        /\ objectKeys(Data) = {"formularcode", "formularcodeergaenzung", "versionsnummer"}
        /\ objectGet(Data, "formularcode") = fields[1]
        /\ objectGet(Data, "formularcodeergaenzung") = fields[2]
        /\ objectGet(Data, "versionsnummer") = fields[3]

C3_Witness ==
    /\ Unsupported
    /\ Len(fields) > 3
    /\ fields[1] = "099"
    /\ fields[4] # ""

\* The registry key a code is looked up under: the code without its leading
\* zeros, or the code itself when nothing but zeros would remain.
LookupKey(c) == IF dropZeros(c) = "" THEN c ELSE dropZeros(c)

\* C4: lookup, in parse and in getFormSchema, strips all leading zeros of
\* the code; a code of zeros only is kept as it is; two codes meet at one
\* key only if they differ in their number of leading zeros alone.
C4_ZeroPadNormalization ==
    /\ lastQuery.op = "getFormSchema" =>
          IF LookupKey(lastQuery.formCode) \in RegisteredCodes
          THEN lastQuery.ret # JsUndefined
               /\ lastQuery.ret.formCode = LookupKey(lastQuery.formCode)
          ELSE lastQuery.ret = JsUndefined
    /\ (Returned /\ tabCount(sanitizedData) >= 2) =>
          /\ Res.formType = LookupKey(fields[1])
          /\ (LookupKey(fields[1]) \in RegisteredCodes) =
                (\A i \in 1..Len(Res.errors) :
                    ~startsWith(Res.errors[i], "Unsupported form type"))
    /\ (lastQuery.op = "getFormSchema" /\ Returned /\ tabCount(sanitizedData) >= 2
            /\ Res.formType = LookupKey(lastQuery.formCode)) =>
          dropZeros(fields[1]) = dropZeros(lastQuery.formCode)

C4_Witness ==
    /\ lastQuery.op = "getFormSchema"
    /\ lastQuery.formCode = "006"
    /\ lastQuery.ret # JsUndefined
    /\ Validated
    /\ fields[1] = "06"
    /\ Res.formType = "6"

\* C5: for a supported code in any zero-padded spelling, formType is the
\* normalized code and data.formularcode is the first token as received.
C5_FormTypeAndCode ==
    Validated =>
        /\ Res.formType = dropZeros(fields[1])
        /\ objectHas(Data, "formularcode")
        /\ objectGet(Data, "formularcode") = fields[1]

C5_Witness ==
    /\ Validated
    /\ fields[1] = "0012"
    /\ Res.formType = "12"
    /\ Len(fields) > 3

\* C6: sanitizeInput keeps every tab of its input, so the sanitized string
\* has as many separators, and the payload as many tokens, as the raw input.
C6_TabsPreserved ==
    Returned =>
        /\ tabCount(sanitizedData) = tabCount(barcodeData.value)
        /\ Len(fields) = tabCount(barcodeData.value) + 1

\* C7: sanitizeInput does not throw; a null or an empty input gives "".
C7_SanitizeNeverThrows ==
    ((barcodeData = JsNull \/ barcodeData = JsStr("")) /\ result.status # "none") =>
        /\ result.status = "returned"
        /\ sanitizedData = ""

\* C8: a present value outside the allowedValues its field definition
\* declares makes the result invalid.
C8_AllowedValuesEnforced ==
    Validated =>
        \A k \in 1..Len(SchemaOf(fields[1]).fields) :
            LET def == SchemaOf(fields[1]).fields[k]
            IN  ("allowedValues" \in DOMAIN def /\ objectHas(Data, def.name)
                   /\ \A a \in 1..Len(def.allowedValues) :
                          def.allowedValues[a] # objectGet(Data, def.name))
                => Res.isValid = FALSE

\* C9: a value longer than the maxLength its field definition declares makes
\* the result invalid.
C9_MaxLengthEnforced ==
    Validated =>
        \A k \in 1..Len(SchemaOf(fields[1]).fields) :
            LET def == SchemaOf(fields[1]).fields[k]
            IN  ("maxLength" \in DOMAIN def /\ objectHas(Data, def.name)
                   /\ Len(objectGet(Data, def.name)) > def.maxLength)
                => Res.isValid = FALSE

\* Some error of the result starts with prefix and mentions value.
ErrorNaming(prefix, value) ==
    \E i \in 1..Len(Res.errors) :
        startsWith(Res.errors[i], prefix) /\ includes(Res.errors[i], value)
ErrorAbout(prefix) ==
    \E i \in 1..Len(Res.errors) : startsWith(Res.errors[i], prefix)

\* C10: on every supported form a present versichertenart outside {1, 3, 5}
\* or a present geschlecht outside {M, W, X, D} makes the result invalid with
\* an error naming the field and the value; a value of the set, or an absent
\* field, gives no such error.
C10_EnumeratedValues ==
    Validated =>
        /\ IF objectHas(Data, "versichertenart")
              /\ objectGet(Data, "versichertenart") \notin {"1", "3", "5"}
           THEN Res.isValid = FALSE
                /\ ErrorNaming("Invalid insurance type", objectGet(Data, "versichertenart"))
           ELSE ~ErrorAbout("Invalid insurance type")
        /\ IF objectHas(Data, "geschlecht")
              /\ objectGet(Data, "geschlecht") \notin {"M", "W", "X", "D"}
           THEN Res.isValid = FALSE
                /\ ErrorNaming("Invalid gender value", objectGet(Data, "geschlecht"))
           ELSE ~ErrorAbout("Invalid gender value")

C10_Witness ==
    /\ Validated
    /\ objectHas(Data, "versichertenart")
    /\ objectGet(Data, "versichertenart") = "9"
    /\ Res.isValid = FALSE
    /\ Res.errors = <<"Invalid insurance type: 9">>

-----------------------------------------------------------------------------
(* C11..C20 *)

\* A string of n decimal digits.
DigitString(s, n) ==
    Len(s) = n /\ \A i \in 1..n : charAt(s, i) \in {"0", "1", "2", "3", "4", "5", "6", "7", "8", "9"}

\* YYYYMMDD or YYYY-MM-DD, digits only.
DateShaped(v) ==
    \/ DigitString(v, 8)
    \/ /\ Len(v) = 10
       /\ DigitString(SubSeq(v, 1, 4), 4) /\ SubSeq(v, 5, 5) = "-"
       /\ DigitString(SubSeq(v, 6, 7), 2) /\ SubSeq(v, 8, 8) = "-"
       /\ DigitString(SubSeq(v, 9, 10), 2)

\* The number of errors of the result that are equal to msg.
ErrorCount(msg) == Cardinality({i \in 1..Len(Res.errors) : Res.errors[i] = msg})

\* C11: a present value under a key containing 'datum' gets an 'Invalid date
\* format' error naming key and value exactly when it has neither date shape;
\* a key without 'datum' never gets one.
C11_DateShapeCheck ==
    Validated =>
        /\ \A i \in 1..Len(Data) :
              ErrorCount("Invalid date format for " \o Data[i].key \o ": " \o Data[i].value)
                  = IF includes(Data[i].key, "datum") /\ ~DateShaped(Data[i].value)
                    THEN 1 ELSE 0
        /\ \A e \in 1..Len(Res.errors) :
              startsWith(Res.errors[e], "Invalid date format") =>
                  \E i \in 1..Len(Data) :
                      /\ includes(Data[i].key, "datum")
                      /\ Res.errors[e] =
                            "Invalid date format for " \o Data[i].key \o ": " \o Data[i].value

C11_Witness ==
    /\ Validated
    /\ objectHas(Data, "geburtsdatum")
    /\ objectGet(Data, "geburtsdatum") = "2024-AB-31"
    /\ Res.errors = <<"Invalid date format for geburtsdatum: 2024-AB-31">>

\* C12: exactly one 'Missing required form identification fields' error when
\* formularcode or versionsnummer is absent from the mapped record, none when
\* both are present.
C12_IdentificationCheck ==
    Validated =>
        ErrorCount("Missing required form identification fields")
            = IF objectHas(Data, "formularcode") /\ objectHas(Data, "versionsnummer")
              THEN 0 ELSE 1

C12_Witness ==
    /\ Validated
    /\ ~objectHas(Data, "versionsnummer")
    /\ Res.errors = <<"Missing required form identification fields">>

\* The token at a zero-based position of the payload, empty beyond its end.
TokenAt(index) == IF index + 1 <= Len(fields) THEN fields[index + 1] ELSE ""

\* The field definitions of the schema the payload resolves to.
SchemaFields == SchemaOf(fields[1]).fields

IsDateField(fieldDef) == "type" \in DOMAIN fieldDef /\ fieldDef.type = "date"

IsReserved(fieldDef) ==
    Len(fieldDef.name) >= 8 /\ SubSeq(fieldDef.name, 1, 8) = "reserved"

\* C13: on the map-and-validate path data is the mapper's output for the
\* tokens and the schema whether or not errors were found; the offending
\* values stay in the record.
C13_PartialSuccess ==
    Validated =>
        /\ Data = mapFieldsToSchema(fields, SchemaOf(fields[1]))
        /\ \A j \in 1..Len(SchemaFields) :
              LET fieldDef == SchemaFields[j] IN
              (~IsReserved(fieldDef) /\ ~IsDateField(fieldDef) /\ TokenAt(fieldDef.index) # "") =>
                  /\ objectHas(Data, fieldDef.name)
                  /\ objectGet(Data, fieldDef.name) = TokenAt(fieldDef.index)

C13_Witness ==
    /\ Validated
    /\ Res.isValid = FALSE
    /\ Res.errors = <<"Invalid gender value: Q">>
    /\ objectHas(Data, "geschlecht") /\ objectGet(Data, "geschlecht") = "Q"
    /\ objectHas(Data, "nachname") /\ objectHas(Data, "geburtsdatum")

\* C14: on all three return paths isValid is true exactly when errors is empty.
C14_ValidIffNoErrors ==
    Returned => (Res.isValid = (Res.errors = <<>>))

C14_Witness ==
    /\ Validated
    /\ Res.isValid = FALSE
    /\ Len(Res.errors) = 2

\* C15: a date-typed field with an 8-character token other than "00000000"
\* is stored as characters 1-4, '-', 5-6, '-', 7-8 with no range check (an
\* all-digit token adds no error); "00000000" or another length leaves the
\* field absent and adds no error.
C15_DateMapping ==
    Validated =>
        \A j \in 1..Len(SchemaFields) :
            LET fieldDef == SchemaFields[j]
                token == TokenAt(fieldDef.index)
            IN  IsDateField(fieldDef) =>
                  IF Len(token) = 8 /\ token # "00000000"
                  THEN /\ objectHas(Data, fieldDef.name)
                       /\ objectGet(Data, fieldDef.name) =
                             SubSeq(token, 1, 4) \o "-" \o SubSeq(token, 5, 6)
                                 \o "-" \o SubSeq(token, 7, 8)
                       /\ DigitString(token, 8) =>
                             ~ErrorAbout("Invalid date format for " \o fieldDef.name \o ":")
                  ELSE /\ ~objectHas(Data, fieldDef.name)
                       /\ ~ErrorAbout("Invalid date format for " \o fieldDef.name \o ":")

C15_Witness ==
    /\ Validated
    /\ TokenAt(6) = "20241399"
    /\ objectHas(Data, "geburtsdatum")
    /\ objectGet(Data, "geburtsdatum") = "2024-13-99"
    /\ Res.isValid = TRUE

\* C16: a payload shorter than the schema's highest index is parsed without
\* throwing; the fields beyond its end are absent, and every error is about a
\* value the payload does carry.
C16_ShortPayload ==
    /\ (result.status # "none" /\ barcodeData.type = "string") => Returned
    /\ Validated =>
          /\ \A j \in 1..Len(SchemaFields) :
                SchemaFields[j].index + 1 > Len(fields) =>
                    ~objectHas(Data, SchemaFields[j].name)
          /\ \A e \in 1..Len(Res.errors) :
                \/ /\ Res.errors[e] = "Missing required form identification fields"
                   /\ fields[3] = ""
                \/ \E j \in 1..Len(SchemaFields) :
                      /\ SchemaFields[j].index + 1 <= Len(fields)
                      /\ fields[SchemaFields[j].index + 1] # ""
                      /\ objectHas(Data, SchemaFields[j].name)
                      /\ includes(Res.errors[e], objectGet(Data, SchemaFields[j].name))
                      /\ \/ startsWith(Res.errors[e], "Invalid date format for " \o SchemaFields[j].name)
                         \/ /\ SchemaFields[j].name = "versichertenart"
                            /\ startsWith(Res.errors[e], "Invalid insurance type")
                         \/ /\ SchemaFields[j].name = "geschlecht"
                            /\ startsWith(Res.errors[e], "Invalid gender")

C16_Witness ==
    /\ Validated
    /\ Res.formType = "10"
    /\ Len(fields) = 5
    /\ Len(Data) = 5
    /\ ~objectHas(Data, "geburtsdatum")
    /\ Res.isValid = TRUE

\* C17: no key of data starts with 'reserved' whatever the tokens at the
\* placeholder positions hold, and every stored field is read from its own
\* schema index.
C17_ReservedNeverEmitted ==
    /\ Returned =>
          \A i \in 1..Len(Data) :
              ~(Len(Data[i].key) >= 8 /\ SubSeq(Data[i].key, 1, 8) = "reserved")
    /\ Validated =>
          \A j \in 1..Len(SchemaFields) :
              LET fieldDef == SchemaFields[j]
                  token == TokenAt(fieldDef.index)
              IN  objectHas(Data, fieldDef.name) =>
                    /\ ~IsReserved(fieldDef)
                    /\ objectGet(Data, fieldDef.name) =
                          IF IsDateField(fieldDef)
                          THEN SubSeq(token, 1, 4) \o "-" \o SubSeq(token, 5, 6)
                                   \o "-" \o SubSeq(token, 7, 8)
                          ELSE token

C17_Witness ==
    /\ Validated
    /\ Res.formType = "6"
    /\ TokenAt(3) = "1234567890"
    /\ objectHas(Data, "nachname")
    /\ objectGet(Data, "nachname") = "Leuthaeuser"
    /\ ~objectHas(Data, "reserved1")

\* C18: no call changes the schema registry, and once parse has answered for
\* a string every later parse of that string, with registry queries in
\* between, gives the same answer.
C18_ParseIsPure ==
    [][/\ schemas' = schemas
       /\ (result.status # "none" /\ barcodeData' = barcodeData) => result' = result]_vars

C18_Witness ==
    /\ Validated
    /\ lastQuery.op = "getFormSchema"
    /\ lastQuery.ret # JsUndefined
    /\ lastQuery.ret.formCode # Res.formType
    /\ schemas = initializeSchemas

\* C19: getSupportedForms returns one {code, name} pair per registered schema,
\* covering 10, 6, 12 and 16; every schema is registered under its own
\* formCode; getFormSchema returns that schema for every zero-padded spelling
\* of a registered code and undefined for any other code.
C19_RegistryIntrospection ==
    /\ Len(schemas) = 4
    /\ {schemas[i].key : i \in 1..Len(schemas)} = RegisteredCodes
    /\ \A i \in 1..Len(schemas) : schemas[i].value.formCode = schemas[i].key
    /\ lastQuery.op = "getSupportedForms" =>
          /\ Len(lastQuery.ret) = 4
          /\ {lastQuery.ret[i].code : i \in 1..4} = RegisteredCodes
          /\ \A i \in 1..4 :
                /\ DOMAIN lastQuery.ret[i] = {"code", "name"}
                /\ lastQuery.ret[i].name = objectGet(schemas, lastQuery.ret[i].code).name
    /\ lastQuery.op = "getFormSchema" =>
          IF dropZeros(lastQuery.formCode) \in RegisteredCodes
          THEN /\ lastQuery.ret = objectGet(schemas, dropZeros(lastQuery.formCode))
               /\ lastQuery.ret.formCode = dropZeros(lastQuery.formCode)
          ELSE lastQuery.ret = JsUndefined

C19_Witness ==
    /\ lastQuery.op = "getSupportedForms"
    /\ Len(lastQuery.ret) = 4
    /\ lastQuery.ret[1].code = "10" /\ lastQuery.ret[2].code = "6"
    /\ lastQuery.ret[3].code = "12" /\ lastQuery.ret[4].code = "16"

\* C20: the 30-token Muster 10 request is parsed as form 10, valid with no
\* errors, with nachname Mustermann, geburtsdatum 1985-06-15, versichertenart 1
\* and no verdachtsdiagnose key.
C20_Muster10Scenario ==
    (barcodeData = JsStr(Muster10Scenario) /\ result.status # "none") =>
        /\ Returned
        /\ Len(fields) = 30
        /\ Res.formType = "10"
        /\ Res.isValid = TRUE
        /\ Res.errors = <<>>
        /\ objectHas(Data, "nachname") /\ objectGet(Data, "nachname") = "Mustermann"
        /\ objectHas(Data, "geburtsdatum") /\ objectGet(Data, "geburtsdatum") = "1985-06-15"
        /\ objectHas(Data, "versichertenart") /\ objectGet(Data, "versichertenart") = "1"
        /\ ~objectHas(Data, "verdachtsdiagnose")

C20_Witness ==
    /\ barcodeData = JsStr(Muster10Scenario)
    /\ Returned
    /\ Res.isValid = TRUE
    /\ objectHas(Data, "nachname")
    /\ objectGet(Data, "nachname") = "Mustermann"

-----------------------------------------------------------------------------
(* C21..C30 *)

\* C21: every date value parse puts into data formats to a display string:
\* formatDate never returns null for a present geburtsdatum,
\* versicherungsschutzEnde or ausstellungsdatum.
C21_FormatDateAcceptsParsedDates ==
    (lastQuery.op = "formatDate" /\ lastQuery.arg # JsUndefined) =>
        lastQuery.ret # JsNull

\* C22: the layout that maps a payload is the variant selected by the pair
\* (form code, versionsnummer): the schema used is one registered for the
\* version the payload carries.
C22_LayoutByCodeAndVersion ==
    Validated =>
        /\ "versionsnummer" \in DOMAIN SchemaOf(fields[1])
        /\ SchemaOf(fields[1]).versionsnummer = TokenAt(2)

\* The three terminal results of parse.
Terminals == {"InsufficientFields", "UnsupportedForm", "Validated"}

\* C23: a parse of a string goes Start, TokenCountCheck, then the
\* insufficient-fields terminal or SchemaLookup, then the unsupported-form
\* terminal or MapAndValidate and its result; no state is revisited or
\* skipped, a terminal is always reached and never left, nothing is thrown,
\* and a failure shows as isValid = FALSE with a non-empty error list.
C23_ParseStateOrder ==
    /\ [][barcodeData.type = "string" =>
            /\ pc = "Start" => pc' = "TokenCountCheck"
            /\ pc = "TokenCountCheck" => pc' \in {"InsufficientFields", "SchemaLookup"}
            /\ pc = "SchemaLookup" => pc' \in {"UnsupportedForm", "MapAndValidate"}
            /\ pc = "MapAndValidate" => pc' = "Validated"
            /\ pc \in Terminals => pc' = pc /\ result' = result]_vars
    /\ [](barcodeData.type = "string" =>
            /\ pc # "Threw" /\ result.status # "threw"
            /\ pc \in Terminals <=> Returned
            /\ pc \in {"InsufficientFields", "UnsupportedForm"} =>
                  Res.isValid = FALSE /\ Len(Res.errors) = 1)
    /\ (barcodeData.type = "string" /\ pc = "Start") ~> (pc \in Terminals)

C23_Witness ==
    /\ pc = "UnsupportedForm"
    /\ Returned
    /\ Res.isValid = FALSE
    /\ Len(fields) > 3

\* The date errors a result must carry, by the order of the schema's fields.
ExpectedDateErrors ==
    LET bad(fieldDef) ==
            /\ \E k \in 1..(Len(fieldDef.name) - 4) : SubSeq(fieldDef.name, k, k + 4) = "datum"
            /\ objectHas(Data, fieldDef.name)
            /\ ~DateShaped(objectGet(Data, fieldDef.name))
        offending == SelectSeq(SchemaFields, bad)
    IN  [i \in 1..Len(offending) |->
            "Invalid date format for " \o offending[i].name \o ": "
                \o objectGet(Data, offending[i].name)]

\* C24: the validator collects every violated rule: errors is the
\* identification error, then the date-format errors in schema field order,
\* then the insurance-type error, then the gender error.
C24_AllErrorsInOrder ==
    Validated =>
        Res.errors =
            (IF TokenAt(2) = ""
             THEN <<"Missing required form identification fields">> ELSE <<>>)
            \o ExpectedDateErrors
            \o (IF objectHas(Data, "versichertenart")
                   /\ objectGet(Data, "versichertenart") \notin {"1", "3", "5"}
                THEN <<"Invalid insurance type: " \o objectGet(Data, "versichertenart")>>
                ELSE <<>>)
            \o (IF objectHas(Data, "geschlecht")
                   /\ objectGet(Data, "geschlecht") \notin {"M", "W", "X", "D"}
                THEN <<"Invalid gender value: " \o objectGet(Data, "geschlecht")>>
                ELSE <<>>)

C24_Witness ==
    /\ Validated
    /\ Res.formType = "10"
    /\ Res.errors = <<"Missing required form identification fields",
                      "Invalid date format for geburtsdatum: 2024-AB-31",
                      "Invalid insurance type: 9",
                      "Invalid gender value: Q">>

\* C25: in each registered schema no two field definitions share an index
\* and no two share a name.
C25_UniqueIndexAndName ==
    \A i \in 1..Len(schemas) :
        LET fieldDefs == schemas[i].value.fields IN
        \A j, k \in 1..Len(fieldDefs) :
            j # k => /\ fieldDefs[j].index # fieldDefs[k].index
                     /\ fieldDefs[j].name # fieldDefs[k].name

C25_Witness ==
    /\ Validated
    /\ Res.formType = "6"
    /\ Len(SchemaFields) = 41
    /\ Cardinality({SchemaFields[j].index : j \in 1..Len(SchemaFields)}) = 41
    /\ Cardinality({SchemaFields[j].name : j \in 1..Len(SchemaFields)}) = 41

\* C26: in a valid result every present field of type date is digits in the
\* shape YYYY-MM-DD; an 8-character date token with a non-digit makes the
\* result invalid.
C26_ValidDatesAreDigits ==
    (Validated /\ Res.isValid) =>
        \A j \in 1..Len(SchemaFields) :
            (IsDateField(SchemaFields[j]) /\ objectHas(Data, SchemaFields[j].name)) =>
                /\ Len(objectGet(Data, SchemaFields[j].name)) = 10
                /\ DateShaped(objectGet(Data, SchemaFields[j].name))

\* The members of the FormType union.
FormTypes == {"10", "12", "6", "16", "17", "18", "39", "52"}

\* C27: the formType of every returned result is a member of FormType.
C27_FormTypeDeclared ==
    Returned => Res.formType \in FormTypes

\* C28: on the map-and-validate path formularcode is present in data (the
\* first token is not empty), so the identification error is emitted exactly
\* when the third token is the empty string.
C28_IdentificationIffNoVersion ==
    Validated =>
        /\ fields[1] # ""
        /\ objectHas(Data, "formularcode")
        /\ objectGet(Data, "formularcode") = fields[1]
        /\ (\E e \in 1..Len(Res.errors) :
                Res.errors[e] = "Missing required form identification fields")
              <=> fields[3] = ""

C28_Witness ==
    /\ Validated
    /\ fields[3] = ""
    /\ Len(fields) > 3
    /\ objectHas(Data, "formularcode")
    /\ Res.errors[1] = "Missing required form identification fields"

\* The promise of scanFromCamera has resolved or rejected.
Settled == promise.state \in {"resolved", "rejected"}

\* C29: once camera access is granted the promise of scanFromCamera
\* eventually resolves or rejects, after at most 600 decode attempts, also
\* when the video never has enough data; when it settles every track of the
\* stream has been stopped.
C29_CameraScanSettles ==
    /\ (stream = "live") ~> Settled
    /\ [](scanCount <= maxScans)
    /\ []((Settled /\ stream # "none") => stream = "stopped")

\* C30: at most one scanFrame of RealTimeBarcodeScanner awaits its decode at
\* any time, under every interleaving of interval ticks, Pause, Resume,
\* stopCamera and decode completions.
C30_OneDecodeInFlight == decodesInFlight <= 1

====
